---------------------------- MODULE Spec2Model ----------------------------
(***************************************************************************)
(* Signal-generation engine of forex-signal-backend.                       *)
(*                                                                         *)
(*   Variant A  TechnicalAnalysis          (src/unnamed/part_000)          *)
(*   Variant B  AdvancedTechnicalAnalysis  (src/server.js)                 *)
(*                                                                         *)
(* JavaScript numbers are modelled as exact rationals <<num, den>> in      *)
(* lowest terms with den > 0.  Prices are whole ticks.  The one place      *)
(* where exact arithmetic leaves the integers of the model checker, the    *)
(* EMA recurrence (its denominators are (period+1)^(n-1)), rounds every    *)
(* step to 1/FloatScale, as the double rounds every step to its own unit.  *)
(***************************************************************************)
EXTENDS Integers, Sequences, FiniteSets, TLC

VARIABLES
    \* indicator library called on its own (TechnicalAnalysis.calculate*)
    prices, period, rsiOut, smaOut, emaOut,
    \* Variant A: one call of TechnicalAnalysis.generateSignal
    currentPrice, historicalPrices, pcA, resultA,
    \* Variant B: one call of AdvancedTechnicalAnalysis.generateAdvancedSignal
    priceB, lib, settled, pcB, resultB,
    \* Variant A: the RSI step and the moving-average step of generateSignal
    rsiS, sma20S, sma50S, priceS, pcS, rsiStep, maStep,
    \* generateAdvancedSignals: its runs, the signals table, the paper-trading
    \* engine
    pcRun, market, visited, signalData, steps, newSignals,
    signalsTable, tradingEngine, executeTradeCalls,
    \* the WebSocket server: its clients, their sockets, the node process
    clients, readyState, sentTo, closeHandled, process

varsInd == <<prices, period, rsiOut, smaOut, emaOut>>
varsA   == <<currentPrice, historicalPrices, pcA, resultA>>
varsB   == <<priceB, lib, settled, pcB, resultB>>
varsS   == <<rsiS, sma20S, sma50S, priceS, pcS, rsiStep, maStep>>
varsRun == <<pcRun, market, visited, signalData, steps, newSignals,
             signalsTable, tradingEngine, executeTradeCalls>>
varsWs  == <<clients, readyState, sentTo, closeHandled, process>>
vars    == <<varsInd, varsA, varsB, varsS, varsRun, varsWs>>

\* What a step of one of them leaves alone.
otherThanInd == <<varsA, varsB, varsS, varsRun, varsWs>>
otherThanA   == <<varsInd, varsB, varsS, varsRun, varsWs>>
otherThanB   == <<varsInd, varsA, varsS, varsRun, varsWs>>
otherThanS   == <<varsInd, varsA, varsB, varsRun, varsWs>>
otherThanRun == <<varsInd, varsA, varsB, varsS, varsWs>>
otherThanWs  == <<varsInd, varsA, varsB, varsS, varsRun>>

\* A value that is not there yet (a call that has not returned).
None == "none"

(***************************************************************************)
(* Bounds of the model.                                                    *)
(***************************************************************************)
\* Length of the series handed to the indicator functions on their own.
MaxLen == 5
\* Largest period handed to the indicator functions on their own.
MaxPeriod == 4
\* Prices of those series are the ticks 1..MaxTick.
MaxTick == 3
\* Unit of the rounding of one EMA step: 1/FloatScale.
FloatScale == 1000
\* Longest history handed to generateSignal.
MaxHist == 51
\* First price of a history, in ticks.
BasePrice == 200
\* Largest rise and largest fall per sample inside the RSI window.
MaxStep == 3
\* Largest slope, up or down, of the two trends after the RSI window.
MaxSlope == 1
\* Sample at which the first trend ends and the second begins.
TrendBreak == 30
\* Distance of currentPrice from the last historical price.
PriceGap == 25
\* Middle Bollinger band the library delivers, and half the band's width.
BandMiddle == 10
BandWidth == 2
\* SMA50 handed to the moving-average step; SMA20 and the price lie around it.
SmaMiddle == 10
\* Significant bits of a number of the paper-trading ledger (a double has 53).
MantissaBits == 12
\* Size of the random price move of a paper trade, in thousandths of a tick.
MoveMilli == 3

(***************************************************************************)
(* Numbers.                                                                *)
(***************************************************************************)
Abs(x) == IF x < 0 THEN -x ELSE x
Min(x, y) == IF x < y THEN x ELSE y
Max(x, y) == IF x < y THEN y ELSE x

RECURSIVE GCD(_, _)
GCD(a, b) == IF b = 0 THEN a ELSE GCD(b, a % b)

\* n/d in lowest terms, d > 0.
Rat(n, d) ==
    LET s == IF d < 0 THEN -1 ELSE 1
        g == GCD(Abs(n), Abs(d))
    IN  <<(s * n) \div g, (s * d) \div g>>

R(i) == <<i, 1>>

\* x + y over the least common denominator
RAdd(x, y) ==
    LET g == GCD(x[2], y[2])
    IN  Rat(x[1] * (y[2] \div g) + y[1] * (x[2] \div g), (x[2] \div g) * y[2])
RNeg(x)    == <<-x[1], x[2]>>
RSub(x, y) == RAdd(x, RNeg(y))
RMul(x, y) == Rat(x[1] * y[1], x[2] * y[2])
RDiv(x, y) == Rat(x[1] * y[2], x[2] * y[1])
RLt(x, y)  == x[1] * y[2] < y[1] * x[2]
RGt(x, y)  == RLt(y, x)
RLe(x, y)  == ~RLt(y, x)

\* Math.max, Math.min
MathMax(x, y) == IF RLt(x, y) THEN y ELSE x
MathMin(x, y) == IF RLt(y, x) THEN y ELSE x

\* Math.round(x * scale): the nearest integer, a half rounding up.
RoundScaled(x, scale) ==
    LET q == x[1] \div x[2]
        r == x[1] % x[2]
    IN  q * scale + ((2 * r * scale + x[2]) \div (2 * x[2]))

\* Math.round(x)
MathRound(x) == RoundScaled(x, 1)

\* Math.round(x * scale) / scale
RoundTo(x, scale) == Rat(RoundScaled(x, scale), scale)

(***************************************************************************)
(* Variant A indicator library: TechnicalAnalysis (part_000:82-124).       *)
(* A JavaScript array a[0..n-1] is the sequence a[1..n].                   *)
(***************************************************************************)
Last(s) == s[Len(s)]

\* for (let i = 1; i <= period; i++) { ... gains / losses ... }
RECURSIVE RsiLoop(_, _, _, _)
RsiLoop(ps, per, i, acc) ==
    IF i > per THEN acc
    ELSE LET difference == ps[i + 1] - ps[i]
         IN  IF difference >= 0
             THEN RsiLoop(ps, per, i + 1, [acc EXCEPT !.gains = @ + difference])
             ELSE RsiLoop(ps, per, i + 1, [acc EXCEPT !.losses = @ - difference])

\* calculateRSI with the loop written i < period: the last delta is not read.
calculateRSI_LoopStopsEarly(ps, per) ==
    IF Len(ps) < per + 1 THEN R(50)
    ELSE LET acc     == RsiLoop(ps, per - 1, 1, [gains |-> 0, losses |-> 0])
             avgGain == RDiv(R(acc.gains), R(per))
             avgLoss == RDiv(R(acc.losses), R(per))
         IN  IF avgLoss = R(0) THEN R(100)
             ELSE LET rs == RDiv(avgGain, avgLoss)
                  IN  RSub(R(100), RDiv(R(100), RAdd(R(1), rs)))

\* calculateRSI answering 50 when there is neither gain nor loss.
calculateRSI_FlatIsNeutral(ps, per) ==
    IF Len(ps) < per + 1 THEN R(50)
    ELSE LET acc     == RsiLoop(ps, per, 1, [gains |-> 0, losses |-> 0])
             avgGain == RDiv(R(acc.gains), R(per))
             avgLoss == RDiv(R(acc.losses), R(per))
         IN  IF avgLoss = R(0) THEN (IF avgGain = R(0) THEN R(50) ELSE R(100))
             ELSE LET rs == RDiv(avgGain, avgLoss)
                  IN  RSub(R(100), RDiv(R(100), RAdd(R(1), rs)))

\* calculateRSI over the most recent period deltas: a trailing window.
calculateRSI_TrailingWindow(ps, per) ==
    IF Len(ps) < per + 1 THEN R(50)
    ELSE LET recent  == SubSeq(ps, Len(ps) - per, Len(ps))
             acc     == RsiLoop(recent, per, 1, [gains |-> 0, losses |-> 0])
             avgGain == RDiv(R(acc.gains), R(per))
             avgLoss == RDiv(R(acc.losses), R(per))
         IN  IF avgLoss = R(0) THEN R(100)
             ELSE LET rs == RDiv(avgGain, avgLoss)
                  IN  RSub(R(100), RDiv(R(100), RAdd(R(1), rs)))

calculateRSI(ps, per) ==
    IF Len(ps) < per + 1 THEN R(50)
    ELSE LET acc     == RsiLoop(ps, per, 1, [gains |-> 0, losses |-> 0])
             avgGain == RDiv(R(acc.gains), R(per))
             avgLoss == RDiv(R(acc.losses), R(per))
         IN  IF avgLoss = R(0) THEN R(100)
             ELSE LET rs == RDiv(avgGain, avgLoss)
                  IN  RSub(R(100), RDiv(R(100), RAdd(R(1), rs)))

\* prices.slice(-period).reduce((a, b) => a + b, 0)
RECURSIVE SumLast(_, _)
SumLast(ps, k) ==
    IF k = 0 THEN 0 ELSE ps[Len(ps) - k + 1] + SumLast(ps, k - 1)

\* calculateSMA falling back to prices[0].
calculateSMA_FirstOnShort(ps, per) ==
    IF Len(ps) < per THEN R(ps[1])
    ELSE RDiv(R(SumLast(ps, per)), R(per))

calculateSMA(ps, per) ==
    IF Len(ps) < per THEN R(Last(ps))
    ELSE RDiv(R(SumLast(ps, per)), R(per))

\* ema = (prices[i] - ema) * multiplier + ema, multiplier = 2 / (period + 1):
\* one step of the loop.  ema is held in units of 1/FloatScale and the
\* step's result is rounded to that unit, a half rounding up.
EmaStep(ema, price, per) ==
    ema + ((4 * (price * FloatScale - ema) + (per + 1)) \div (2 * (per + 1)))

\* for (let i = 1; i < prices.length; i++) { ema = ... }, on the loop's
\* variables st = [i, ema]
RECURSIVE EmaLoop(_, _, _)
EmaLoop(ps, per, st) ==
    IF st.i > Len(ps) THEN st.ema
    ELSE EmaLoop(ps, per, [i |-> st.i + 1, ema |-> EmaStep(st.ema, ps[st.i], per)])

calculateEMA(ps, per) ==
    IF Len(ps) < per THEN R(Last(ps))
    ELSE Rat(EmaLoop(ps, per, [i |-> 2, ema |-> ps[1] * FloatScale]), FloatScale)

(***************************************************************************)
(* Variant A synthesizer: TechnicalAnalysis.generateSignal                 *)
(* (part_000:126-201).                                                     *)
(***************************************************************************)
\* An argument that is an array, and one that was not passed (undefined).
Array(items) == [kind |-> "array", items |-> items]
Missing == [kind |-> "undefined", items |-> <<>>]

\* The RSI step with the wide bands tested first.
RsiSignal_WideBandFirst(rsi) ==
    IF RLt(rsi, R(35)) THEN
        [signal |-> "BUY", strength |-> "BUY",
         confidence |-> RSub(R(75), RMul(RDiv(RSub(rsi, R(25)), R(10)), R(25)))]
    ELSE IF RLt(rsi, R(25)) THEN
        [signal |-> "BUY", strength |-> "STRONG BUY",
         confidence |-> RSub(R(85), RMul(RDiv(rsi, R(25)), R(35)))]
    ELSE IF RGt(rsi, R(65)) THEN
        [signal |-> "SELL", strength |-> "SELL",
         confidence |-> RSub(R(75), RMul(RDiv(RSub(R(75), rsi), R(10)), R(25)))]
    ELSE IF RGt(rsi, R(75)) THEN
        [signal |-> "SELL", strength |-> "STRONG SELL",
         confidence |-> RSub(R(85), RMul(RDiv(RSub(R(100), rsi), R(25)), R(35)))]
    ELSE
        [signal |-> "NEUTRAL", strength |-> "HOLD", confidence |-> R(50)]

\* RSI-based signals (lines 141-162)
RsiSignal(rsi) ==
    IF RLt(rsi, R(25)) THEN
        [signal |-> "BUY", strength |-> "STRONG BUY",
         confidence |-> RSub(R(85), RMul(RDiv(rsi, R(25)), R(35)))]
    ELSE IF RLt(rsi, R(35)) THEN
        [signal |-> "BUY", strength |-> "BUY",
         confidence |-> RSub(R(75), RMul(RDiv(RSub(rsi, R(25)), R(10)), R(25)))]
    ELSE IF RGt(rsi, R(75)) THEN
        [signal |-> "SELL", strength |-> "STRONG SELL",
         confidence |-> RSub(R(85), RMul(RDiv(RSub(R(100), rsi), R(25)), R(35)))]
    ELSE IF RGt(rsi, R(65)) THEN
        [signal |-> "SELL", strength |-> "SELL",
         confidence |-> RSub(R(75), RMul(RDiv(RSub(R(75), rsi), R(10)), R(25)))]
    ELSE
        [signal |-> "NEUTRAL", strength |-> "HOLD", confidence |-> R(50)]

\* The moving-average step raising the confidence when it forces the
\* signal, too.
MovingAverageCrossover_BoostOnForce(s, sma20, sma50, price) ==
    IF RGt(sma20, sma50) /\ RGt(R(price), sma20) THEN
        [s EXCEPT !.signal = "BUY",
                  !.confidence = RAdd(@, R(10)),
                  !.strength = IF s.signal = "BUY" THEN @
                               ELSE IF RGt(s.confidence, R(60))
                               THEN "BUY" ELSE "WEAK BUY"]
    ELSE IF RLt(sma20, sma50) /\ RLt(R(price), sma20) THEN
        [s EXCEPT !.signal = "SELL",
                  !.confidence = RAdd(@, R(10)),
                  !.strength = IF s.signal = "SELL" THEN @
                               ELSE IF RGt(s.confidence, R(60))
                               THEN "SELL" ELSE "WEAK SELL"]
    ELSE s

\* Moving average crossover (lines 164-177)
MovingAverageCrossover(s, sma20, sma50, price) ==
    IF RGt(sma20, sma50) /\ RGt(R(price), sma20) THEN
        IF s.signal = "BUY"
        THEN [s EXCEPT !.confidence = RAdd(@, R(10))]
        ELSE [s EXCEPT !.signal = "BUY",
                       !.strength = IF RGt(s.confidence, R(60))
                                    THEN "BUY" ELSE "WEAK BUY"]
    ELSE IF RLt(sma20, sma50) /\ RLt(R(price), sma20) THEN
        IF s.signal = "SELL"
        THEN [s EXCEPT !.confidence = RAdd(@, R(10))]
        ELSE [s EXCEPT !.signal = "SELL",
                       !.strength = IF RGt(s.confidence, R(60))
                                    THEN "SELL" ELSE "WEAK SELL"]
    ELSE s

\* EMA crossover (lines 179-184)
EmaCrossover(s, ema12, ema26) ==
    IF RGt(ema12, ema26) /\ s.signal = "BUY"
    THEN [s EXCEPT !.confidence = RAdd(@, R(5))]
    ELSE IF RLt(ema12, ema26) /\ s.signal = "SELL"
    THEN [s EXCEPT !.confidence = RAdd(@, R(5))]
    ELSE s

\* The clamp without its Math.min(95, ...).
ClampConfidence_NoUpperClamp(confidence) ==
    MathMax(R(20), R(MathRound(confidence)))[1]

\* Math.max(20, Math.min(95, Math.round(confidence)))  (line 187)
ClampConfidence(confidence) ==
    MathMax(R(20), MathMin(R(95), R(MathRound(confidence))))[1]

\* The indicators and the three steps on a history of 20 or more samples
\* (lines 135-200).
FullAnalysis(price, hist) ==
    LET rsi   == calculateRSI(hist, 14)
        sma20 == calculateSMA(hist, 20)
        sma50 == calculateSMA(hist, 50)
        ema12 == calculateEMA(hist, 12)
        ema26 == calculateEMA(hist, 26)
        s     == EmaCrossover(
                     MovingAverageCrossover(RsiSignal(rsi), sma20, sma50, price),
                     ema12, ema26)
    IN  [signal     |-> s.signal,
         strength   |-> s.strength,
         confidence |-> ClampConfidence(s.confidence),
         rsi        |-> RoundTo(rsi, 100),
         moving_average |->
             [sma_20 |-> RoundTo(sma20, 100000),
              sma_50 |-> RoundTo(sma50, 100000),
              ema_12 |-> RoundTo(ema12, 100000),
              ema_26 |-> RoundTo(ema26, 100000)]]

\* generateSignal analysing every history that has a sample.
SignalOf_AnalysesShort(price, hist) ==
    IF Len(hist) < 1 THEN
        [signal |-> "NEUTRAL", strength |-> "HOLD", confidence |-> 50]
    ELSE FullAnalysis(price, hist)

\* The value generateSignal returns, historicalPrices being an array.
SignalOf(price, hist) ==
    IF Len(hist) < 20 THEN
        [signal |-> "NEUTRAL", strength |-> "HOLD", confidence |-> 50]
    ELSE FullAnalysis(price, hist)

\* generateSignal: historicalPrices.length of undefined is a TypeError, and
\* nothing in the function catches it.
generateSignal(price, hist) ==
    IF hist.kind = "undefined"
    THEN [outcome |-> "threw", value |-> [error |-> "TypeError"]]
    ELSE [outcome |-> "returned", value |-> SignalOf(price, hist.items)]

(***************************************************************************)
(* Variant B indicator functions: AdvancedTechnicalAnalysis                *)
(* (server.js:157-214).  Each wraps one call of the tulind library in a    *)
(* promise.  What the library does with the series is not this             *)
(* repository's code: a call either throws, or calls back with an error,   *)
(* or calls back with its output arrays.                                   *)
(***************************************************************************)
Indicators == {"rsi", "macd", "bollinger", "stochastic"}

Pending     == [state |-> "pending"]
Rejected    == [state |-> "rejected"]
Resolved(v) == [state |-> "resolved", value |-> v]

\* !results[0] || results[0].length === 0
NoOutput(results) == Len(results) = 0 \/ Len(results[1]) = 0

\* calculateRSI rejecting on a library error instead of resolving with 50.
AdvCalculateRSI_RejectOnError(o) ==
    IF o.thrown \/ o.err THEN Rejected
    ELSE IF NoOutput(o.results) THEN Resolved(R(50))
    ELSE Resolved(Last(o.results[1]))

AdvCalculateRSI(o) ==
    IF o.thrown THEN Rejected
    ELSE IF o.err \/ NoOutput(o.results) THEN Resolved(R(50))
    ELSE Resolved(Last(o.results[1]))

AdvCalculateMACD(o) ==
    IF o.thrown THEN Rejected
    ELSE IF o.err \/ NoOutput(o.results)
    THEN Resolved([macd |-> R(0), signal |-> R(0), histogram |-> R(0)])
    ELSE Resolved([macd      |-> Last(o.results[1]),
                   signal    |-> Last(o.results[2]),
                   histogram |-> Last(o.results[3])])

AdvCalculateBollingerBands(o) ==
    IF o.thrown THEN Rejected
    ELSE IF o.err \/ NoOutput(o.results)
    THEN Resolved([upper |-> R(0), middle |-> R(0), lower |-> R(0)])
    ELSE Resolved([upper  |-> Last(o.results[1]),
                   middle |-> Last(o.results[2]),
                   lower  |-> Last(o.results[3])])

AdvCalculateStochastic(o) ==
    IF o.thrown THEN Rejected
    ELSE IF o.err \/ NoOutput(o.results)
    THEN Resolved([k |-> R(50), d |-> R(50)])
    ELSE Resolved([k |-> Last(o.results[1]), d |-> Last(o.results[2])])

(***************************************************************************)
(* Variant B synthesizer: generateAdvancedSignal (server.js:216-304).      *)
(***************************************************************************)
\* The RSI rules with the wide bands tested first.
RsiAnalysis_WideBandFirst(acc, rsi) ==
    IF RLt(rsi, R(35)) THEN
        [signalPoints |-> acc.signalPoints + 2, confidence |-> acc.confidence + 10]
    ELSE IF RLt(rsi, R(25)) THEN
        [signalPoints |-> acc.signalPoints + 3, confidence |-> acc.confidence + 20]
    ELSE IF RGt(rsi, R(65)) THEN
        [signalPoints |-> acc.signalPoints - 2, confidence |-> acc.confidence + 10]
    ELSE IF RGt(rsi, R(75)) THEN
        [signalPoints |-> acc.signalPoints - 3, confidence |-> acc.confidence + 20]
    ELSE acc

\* RSI Analysis (lines 230-243)
RsiAnalysis(acc, rsi) ==
    IF RLt(rsi, R(25)) THEN
        [signalPoints |-> acc.signalPoints + 3, confidence |-> acc.confidence + 20]
    ELSE IF RLt(rsi, R(35)) THEN
        [signalPoints |-> acc.signalPoints + 2, confidence |-> acc.confidence + 10]
    ELSE IF RGt(rsi, R(75)) THEN
        [signalPoints |-> acc.signalPoints - 3, confidence |-> acc.confidence + 20]
    ELSE IF RGt(rsi, R(65)) THEN
        [signalPoints |-> acc.signalPoints - 2, confidence |-> acc.confidence + 10]
    ELSE acc

\* MACD Analysis (lines 245-252)
MacdAnalysis(acc, macd) ==
    IF RGt(macd.macd, macd.signal) /\ RGt(macd.histogram, R(0)) THEN
        [signalPoints |-> acc.signalPoints + 3, confidence |-> acc.confidence + 15]
    ELSE IF RLt(macd.macd, macd.signal) /\ RLt(macd.histogram, R(0)) THEN
        [signalPoints |-> acc.signalPoints - 3, confidence |-> acc.confidence + 15]
    ELSE acc

\* The Bollinger rules scoring with the trend: below the lower band sells.
BollingerAnalysis_WithTrend(acc, price, bollinger) ==
    IF RLt(R(price), bollinger.lower) THEN
        [signalPoints |-> acc.signalPoints - 2, confidence |-> acc.confidence + 10]
    ELSE IF RGt(R(price), bollinger.upper) THEN
        [signalPoints |-> acc.signalPoints + 2, confidence |-> acc.confidence + 10]
    ELSE acc

\* The Bollinger rules leaving out bands that are all zero.
BollingerAnalysis_SkipsZeroBands(acc, price, bollinger) ==
    IF bollinger.upper = R(0) /\ bollinger.lower = R(0) THEN acc
    ELSE IF RLt(R(price), bollinger.lower) THEN
        [signalPoints |-> acc.signalPoints + 2, confidence |-> acc.confidence + 10]
    ELSE IF RGt(R(price), bollinger.upper) THEN
        [signalPoints |-> acc.signalPoints - 2, confidence |-> acc.confidence + 10]
    ELSE acc

\* Bollinger Bands Analysis (lines 254-261)
BollingerAnalysis(acc, price, bollinger) ==
    IF RLt(R(price), bollinger.lower) THEN
        [signalPoints |-> acc.signalPoints + 2, confidence |-> acc.confidence + 10]
    ELSE IF RGt(R(price), bollinger.upper) THEN
        [signalPoints |-> acc.signalPoints - 2, confidence |-> acc.confidence + 10]
    ELSE acc

\* Stochastic Analysis (lines 263-270)
StochasticAnalysis(acc, stochastic) ==
    IF RLt(stochastic.k, R(20)) /\ RLt(stochastic.d, R(20)) THEN
        [signalPoints |-> acc.signalPoints + 2, confidence |-> acc.confidence + 10]
    ELSE IF RGt(stochastic.k, R(80)) /\ RGt(stochastic.d, R(80)) THEN
        [signalPoints |-> acc.signalPoints - 2, confidence |-> acc.confidence + 10]
    ELSE acc

\* The final signal with strict comparisons.
FinalSignal_Strict(signalPoints) ==
    IF signalPoints > 6 THEN
        [signal |-> "BUY",
         strength |-> IF signalPoints > 8 THEN "STRONG BUY" ELSE "BUY"]
    ELSE IF signalPoints < -6 THEN
        [signal |-> "SELL",
         strength |-> IF signalPoints < -8 THEN "STRONG SELL" ELSE "SELL"]
    ELSE [signal |-> "NEUTRAL", strength |-> "HOLD"]

\* Determine final signal (lines 272-279)
FinalSignal(signalPoints) ==
    IF signalPoints >= 6 THEN
        [signal |-> "BUY",
         strength |-> IF signalPoints >= 8 THEN "STRONG BUY" ELSE "BUY"]
    ELSE IF signalPoints =< -6 THEN
        [signal |-> "SELL",
         strength |-> IF signalPoints =< -8 THEN "STRONG SELL" ELSE "SELL"]
    ELSE [signal |-> "NEUTRAL", strength |-> "HOLD"]

\* The final confidence without its Math.min(95, ...).
FinalConfidence_NoUpperClamp(acc) ==
    Max(30, acc.confidence + Abs(acc.signalPoints) * 3)

\* The final confidence without the 3 per point.
FinalConfidence_NoPointsBonus(acc) ==
    Max(30, Min(95, acc.confidence))

\* Math.max(30, Math.min(95, confidence + Math.abs(signalPoints) * 3)) (line 282)
FinalConfidence(acc) ==
    Max(30, Min(95, acc.confidence + Abs(acc.signalPoints) * 3))

\* The try block after the await: lines 225-293.
generateAdvancedSignal(price, rsi, macd, bollinger, stochastic) ==
    LET acc == StochasticAnalysis(
                   BollingerAnalysis(
                       MacdAnalysis(
                           RsiAnalysis([signalPoints |-> 0, confidence |-> 50], rsi),
                           macd),
                       price, bollinger),
                   stochastic)
        final == FinalSignal(acc.signalPoints)
    IN  [signal          |-> final.signal,
         strength        |-> final.strength,
         confidence      |-> MathRound(R(FinalConfidence(acc))),
         rsi             |-> RoundTo(rsi, 100),
         macd            |-> macd,
         bollinger_bands |-> bollinger,
         stochastic      |-> stochastic,
         signal_points   |-> acc.signalPoints]

\* The catch block: lines 295-303.
AnalysisError ==
    [signal |-> "NEUTRAL", strength |-> "HOLD", confidence |-> 50, rsi |-> R(50)]

(***************************************************************************)
(* The paper-trading engine (server.js:486-529) and the strong-signal test *)
(* of the pipeline (server.js:561).  The numbers of the ledger are         *)
(* floating-point: every sum is rounded to MantissaBits significant bits,  *)
(* ties to even, as a double rounds every sum to 53.  The unit of the      *)
(* ledger is the smallest amount a pnl is a multiple of.                   *)
(***************************************************************************)
RECURSIVE Pow2(_)
Pow2(n) == IF n = 0 THEN 1 ELSE 2 * Pow2(n - 1)

\* The spacing of the floating-point numbers around a >= 0.
RECURSIVE UlpOf(_, _)
UlpOf(a, u) == IF a < Pow2(MantissaBits) * u THEN u ELSE UlpOf(a, 2 * u)

\* x rounded to the nearest floating-point number, ties to even.
FloatRound(x) ==
    LET a == Abs(x)
        u == UlpOf(a, 1)
        q == a \div u
        r == a % u
        n == IF 2 * r < u THEN q
             ELSE IF 2 * r > u THEN q + 1
             ELSE IF q % 2 = 0 THEN q ELSE q + 1
    IN  IF x < 0 THEN -(n * u) ELSE n * u

\* x + y of two numbers of the ledger
FloatAdd(x, y) == FloatRound(x + y)

\* this.balance = 10000 (line 488); amount = 1000 (line 493)
InitialBalance == 10000
DefaultAmount == 1000

\* new PaperTradingEngine()
NewEngine ==
    [balance |-> InitialBalance, positions |-> {}, tradeHistory |-> <<>>]

\* executeTrade(signal, amount): the engine after the call.  priceMove is
\* (Math.random() - 0.5) * signal.price * 0.02, in thousandths of a tick.
executeTrade(engine, signal, amount, priceMove) ==
    LET move  == (priceMove * amount) \div 1000
        trade == [symbol     |-> signal.symbol,
                  type       |-> signal.signal,
                  entryPrice |-> signal.price,
                  amount     |-> amount,
                  status     |-> "EXECUTED",
                  pnl        |-> IF signal.signal = "BUY" THEN move ELSE -move]
    IN  [engine EXCEPT !.tradeHistory = Append(@, trade),
                       !.balance = FloatAdd(@, trade.pnl)]

\* this.tradeHistory.reduce((sum, t) => sum + t.pnl, 0)
RECURSIVE TotalPnl(_, _)
TotalPnl(history, st) ==
    IF st.i > Len(history) THEN st.sum
    ELSE TotalPnl(history, [i   |-> st.i + 1,
                            sum |-> FloatAdd(st.sum, history[st.i].pnl)])

getPortfolio(engine) ==
    [balance       |-> engine.balance,
     totalTrades   |-> Len(engine.tradeHistory),
     winningTrades |-> Cardinality({i \in 1..Len(engine.tradeHistory) :
                                       engine.tradeHistory[i].pnl > 0}),
     totalPnl      |-> TotalPnl(engine.tradeHistory, [i |-> 1, sum |-> 0])]

\* The test that lets a confident NEUTRAL signal through.
IsStrongSignal_ConfidenceOnly(sd) == sd.confidence >= 70

\* const isStrongSignal = signalData.confidence >= 70 && signalData.signal !== 'NEUTRAL'
IsStrongSignal(sd) == sd.confidence >= 70 /\ sd.signal # "NEUTRAL"

\* The runs of generateAdvancedSignals that may overlap: the one the cron
\* schedule started and the one POST /api/signals/generate started.
Runs == {"scheduled", "manual"}

\* The markets of the model: the first two of MARKET_SYMBOLS.
MARKET_SYMBOLS == <<"EUR/USD", "GBP/USD">>

\* signalData before generateAdvancedSignal has returned
NoData == [signal |-> "NONE", strength |-> "NONE", confidence |-> 0]

\* The sockets that may connect to the WebSocket server.
Sockets == {"ws1", "ws2", "ws3"}

\* The server as wss and clients are created (lines 59-60).
IdleWs ==
    /\ clients = {}
    /\ readyState = [ws \in Sockets |-> "CONNECTING"]
    /\ sentTo = {}
    /\ closeHandled = {}
    /\ process = "running"

IdleRun ==
    /\ pcRun = [r \in Runs |-> "idle"]
    /\ market = [r \in Runs |-> 1]
    /\ visited = [r \in Runs |-> <<>>]
    /\ signalData = [r \in Runs |-> NoData]
    /\ steps = [r \in Runs |-> <<>>]
    /\ newSignals = [r \in Runs |-> <<>>]
    /\ signalsTable = {}
    /\ tradingEngine = NewEngine
    /\ executeTradeCalls = 0

(***************************************************************************)
(* The indicator functions called on their own, on every series of         *)
(* 1..MaxLen ticks and every period 1..MaxPeriod.                          *)
(***************************************************************************)
Ticks == 1..MaxTick

SeriesOfLen(n) == [1..n -> Ticks]

ShortSeries == UNION {SeriesOfLen(n) : n \in 1..MaxLen}

IdleInd == /\ prices = <<>>
           /\ period = 0
           /\ rsiOut = None
           /\ smaOut = None
           /\ emaOut = None

IdleA == /\ currentPrice = 0
         /\ historicalPrices = Missing
         /\ pcA = "idle"
         /\ resultA = None

IdleB == /\ priceB = 0
         /\ lib = [i \in Indicators |-> "pending"]
         /\ settled = [i \in Indicators |-> Pending]
         /\ pcB = "idle"
         /\ resultB = None

IdleS == /\ rsiS = R(50)
         /\ sma20S = R(0)
         /\ sma50S = R(0)
         /\ priceS = 0
         /\ pcS = "idle"
         /\ rsiStep = None
         /\ maStep = None

InitInd ==
    /\ prices \in ShortSeries
    /\ period \in 1..MaxPeriod
    /\ rsiOut = None
    /\ smaOut = None
    /\ emaOut = None
    /\ IdleA
    /\ IdleB
    /\ IdleS
    /\ IdleRun
    /\ IdleWs

CallRSI ==
    /\ rsiOut = None
    /\ rsiOut' = calculateRSI(prices, period)
    /\ UNCHANGED <<prices, period, smaOut, emaOut, otherThanInd>>

CallSMA ==
    /\ smaOut = None
    /\ smaOut' = calculateSMA(prices, period)
    /\ UNCHANGED <<prices, period, rsiOut, emaOut, otherThanInd>>

CallEMA ==
    /\ emaOut = None
    /\ emaOut' = calculateEMA(prices, period)
    /\ UNCHANGED <<prices, period, rsiOut, smaOut, otherThanInd>>

NextInd == CallRSI \/ CallSMA \/ CallEMA

SpecInd == InitInd /\ [][NextInd]_vars

(***************************************************************************)
(* One call of generateSignal.  The histories are the prefixes of          *)
(* piecewise-linear series: `up' rises of `rise' ticks, then falls of      *)
(* `fall' ticks to the end of the 14 deltas RSI reads, then two trends.    *)
(***************************************************************************)
Shape(up, rise, fall, t1, t2) ==
    [k \in 1..MaxHist |->
        BasePrice
        + rise * Min(k - 1, up)
        - fall * Max(0, Min(k - 1, 14) - up)
        + t1 * Max(0, Min(k - 1, TrendBreak) - 14)
        + t2 * Max(0, k - 1 - TrendBreak)]

UpMoves == {3, 7, 11}

HistLens == {0, 1, 19, 20, 25, 26, 49, 50, MaxHist}

Histories ==
    {SubSeq(Shape(up, rise, fall, t1, t2), 1, n) :
        up \in UpMoves, rise \in 0..MaxStep, fall \in 0..MaxStep,
        t1 \in -MaxSlope..MaxSlope, t2 \in -MaxSlope..MaxSlope, n \in HistLens}

InitA ==
    /\ historicalPrices \in {Array(h) : h \in Histories} \cup {Missing}
    /\ \E gap \in {-PriceGap, 0, PriceGap} :
          currentPrice = (IF historicalPrices.items = <<>>
                          THEN BasePrice ELSE Last(historicalPrices.items)) + gap
    /\ pcA = "call"
    /\ resultA = None
    /\ IdleInd
    /\ IdleB
    /\ IdleS
    /\ IdleRun
    /\ IdleWs

\* TechnicalAnalysis.generateSignal(currentPrice, historicalPrices)
CallGenerateSignal ==
    /\ pcA = "call"
    /\ LET r == generateSignal(currentPrice, historicalPrices)
       IN  /\ pcA' = r.outcome
           /\ resultA' = r.value
    /\ UNCHANGED <<currentPrice, historicalPrices, otherThanA>>

NextA == CallGenerateSignal

SpecA == InitA /\ [][NextA]_vars

(***************************************************************************)
(* One call of generateAdvancedSignal.  The four indicator promises are    *)
(* created by the call; each settles when its library call ends; the       *)
(* await of Promise.all continues when all four have resolved, or throws   *)
(* into the catch block as soon as one has rejected.                       *)
(***************************************************************************)
\* RSI values the library may deliver, in thousandths.
RsiMilli == {0, 24996, 25000, 30000, 35000, 50000, 65000, 70000, 75000, 75004, 100000}
RsiValues == {Rat(m, 1000) : m \in RsiMilli}

MacdLevels == {R(-1), R(0), R(1)}
MacdValues == [macd : MacdLevels, signal : MacdLevels, histogram : MacdLevels]

\* The bands the library may deliver, and the prices around them.
BandValues == {[upper  |-> R(BandMiddle + BandWidth),
                middle |-> R(BandMiddle),
                lower  |-> R(BandMiddle - BandWidth)]}
PricesB == {BandMiddle - BandWidth - 1, BandMiddle - BandWidth, BandMiddle,
            BandMiddle + BandWidth, BandMiddle + BandWidth + 1}

StochLevels == {R(10), R(20), R(50), R(80), R(90)}
StochValues == [k : StochLevels, d : StochLevels]

\* An output array of the library that ends in v: v alone, or after an
\* older value.
Ending(v, older) == {<<v>>, <<older, v>>}

Threw       == [thrown |-> TRUE,  err |-> FALSE, results |-> <<>>]
Failed      == [thrown |-> FALSE, err |-> TRUE,  results |-> <<>>]
Output(rs)  == [thrown |-> FALSE, err |-> FALSE, results |-> rs]

RsiOutcomes ==
    {Threw, Failed, Output(<<>>), Output(<< <<>> >>)}
    \cup {Output(<<a>>) : a \in UNION {Ending(v, R(42)) : v \in RsiValues}}

MacdOutcomes ==
    {Threw, Failed, Output(<<>>), Output(<< <<>>, <<>>, <<>> >>)}
    \cup UNION {{Output(<< <<v.macd>>, <<v.signal>>, <<v.histogram>> >>),
                 Output(<< <<R(7), v.macd>>, <<R(7), v.signal>>, <<R(7), v.histogram>> >>)}
                : v \in MacdValues}

BollingerOutcomes ==
    {Threw, Failed, Output(<<>>), Output(<< <<>>, <<>>, <<>> >>)}
    \cup UNION {{Output(<< <<v.upper>>, <<v.middle>>, <<v.lower>> >>),
                 Output(<< <<R(1), v.upper>>, <<R(1), v.middle>>, <<R(1), v.lower>> >>)}
                : v \in BandValues}

StochasticOutcomes ==
    {Threw, Failed, Output(<<>>), Output(<< <<>>, <<>> >>)}
    \cup UNION {{Output(<< <<v.k>>, <<v.d>> >>),
                 Output(<< <<R(42), v.k>>, <<R(42), v.d>> >>)}
                : v \in StochValues}

\* How a library call ended.
Kind(o) ==
    IF o.thrown THEN "threw"
    ELSE IF o.err THEN "error"
    ELSE IF NoOutput(o.results) THEN "empty"
    ELSE "ok"

Init ==
    /\ priceB \in PricesB
    /\ lib = [i \in Indicators |-> "pending"]
    /\ settled = [i \in Indicators |-> Pending]
    /\ pcB = "awaiting"
    /\ resultB = None
    /\ IdleInd
    /\ IdleA
    /\ IdleS
    /\ IdleRun
    /\ IdleWs

\* The callback handed to tulind.indicators.rsi.indicator
RsiCallback ==
    /\ pcB # "idle"
    /\ settled["rsi"].state = "pending"
    /\ \E o \in RsiOutcomes :
          /\ settled' = [settled EXCEPT !["rsi"] = AdvCalculateRSI(o)]
          /\ lib' = [lib EXCEPT !["rsi"] = Kind(o)]
    /\ UNCHANGED <<priceB, pcB, resultB, otherThanB>>

\* The callback handed to tulind.indicators.macd.indicator
MacdCallback ==
    /\ pcB # "idle"
    /\ settled["macd"].state = "pending"
    /\ \E o \in MacdOutcomes :
          /\ settled' = [settled EXCEPT !["macd"] = AdvCalculateMACD(o)]
          /\ lib' = [lib EXCEPT !["macd"] = Kind(o)]
    /\ UNCHANGED <<priceB, pcB, resultB, otherThanB>>

\* The callback handed to tulind.indicators.bbands.indicator
BollingerCallback ==
    /\ pcB # "idle"
    /\ settled["bollinger"].state = "pending"
    /\ \E o \in BollingerOutcomes :
          /\ settled' = [settled EXCEPT !["bollinger"] = AdvCalculateBollingerBands(o)]
          /\ lib' = [lib EXCEPT !["bollinger"] = Kind(o)]
    /\ UNCHANGED <<priceB, pcB, resultB, otherThanB>>

\* The callback handed to tulind.indicators.stoch.indicator
StochasticCallback ==
    /\ pcB # "idle"
    /\ settled["stochastic"].state = "pending"
    /\ \E o \in StochasticOutcomes :
          /\ settled' = [settled EXCEPT !["stochastic"] = AdvCalculateStochastic(o)]
          /\ lib' = [lib EXCEPT !["stochastic"] = Kind(o)]
    /\ UNCHANGED <<priceB, pcB, resultB, otherThanB>>

\* The scoring not waiting for the join: it starts as soon as RSI has
\* resolved, an indicator still pending counting with its fallback.
Join_Speculative ==
    LET ValueOr(i, fallback) ==
            IF settled[i].state = "resolved" THEN settled[i].value ELSE fallback
    IN  /\ pcB = "awaiting"
        /\ settled["rsi"].state = "resolved"
        /\ \A i \in Indicators : settled[i].state # "rejected"
        /\ resultB' = generateAdvancedSignal(priceB, settled["rsi"].value,
               ValueOr("macd", [macd |-> R(0), signal |-> R(0), histogram |-> R(0)]),
               ValueOr("bollinger", [upper |-> R(0), middle |-> R(0), lower |-> R(0)]),
               ValueOr("stochastic", [k |-> R(50), d |-> R(50)]))
        /\ pcB' = "returned"
        /\ UNCHANGED <<priceB, lib, settled, otherThanB>>

\* Promise.all resolved: the rest of the try block runs.
Join ==
    /\ pcB = "awaiting"
    /\ \A i \in Indicators : settled[i].state = "resolved"
    /\ resultB' = generateAdvancedSignal(priceB, settled["rsi"].value,
                      settled["macd"].value, settled["bollinger"].value,
                      settled["stochastic"].value)
    /\ pcB' = "returned"
    /\ UNCHANGED <<priceB, lib, settled, otherThanB>>

\* Promise.all rejected: the catch block runs.
Catch ==
    /\ pcB = "awaiting"
    /\ \E i \in Indicators : settled[i].state = "rejected"
    /\ resultB' = AnalysisError
    /\ pcB' = "returned"
    /\ UNCHANGED <<priceB, lib, settled, otherThanB>>

Next ==
    \/ RsiCallback
    \/ MacdCallback
    \/ BollingerCallback
    \/ StochasticCallback
    \/ Join
    \/ Catch

Spec == Init /\ [][Next]_vars

(***************************************************************************)
(* The first two steps of generateSignal (part_000:141-177) on their own:  *)
(* the RSI step sets signal, strength and confidence from the RSI, the     *)
(* moving-average step revises them from SMA20, SMA50 and the price.       *)
(***************************************************************************)
\* RSI values handed to the RSI step, in thousandths: the band edges, and
\* the values whose confidence is the 60 the moving-average step tests.
RsiStepMilli == RsiMilli \cup {31000, 69000}

InitS ==
    /\ rsiS \in {Rat(m, 1000) : m \in RsiStepMilli}
    /\ sma50S = R(SmaMiddle)
    /\ sma20S \in {R(SmaMiddle - 1), R(SmaMiddle), R(SmaMiddle + 1)}
    /\ priceS \in {sma20S[1] - 1, sma20S[1], sma20S[1] + 1}
    /\ pcS = "rsi"
    /\ rsiStep = None
    /\ maStep = None
    /\ IdleInd
    /\ IdleA
    /\ IdleB
    /\ IdleRun
    /\ IdleWs

\* RSI-based signals
RsiStep ==
    /\ pcS = "rsi"
    /\ rsiStep' = RsiSignal(rsiS)
    /\ pcS' = "ma"
    /\ UNCHANGED <<rsiS, sma20S, sma50S, priceS, maStep, otherThanS>>

\* Moving average crossover
MaStep ==
    /\ pcS = "ma"
    /\ maStep' = MovingAverageCrossover(rsiStep, sma20S, sma50S, priceS)
    /\ pcS' = "ema"
    /\ UNCHANGED <<rsiS, sma20S, sma50S, priceS, rsiStep, otherThanS>>

NextS == RsiStep \/ MaStep

SpecS == InitS /\ [][NextS]_vars

(***************************************************************************)
(* generateAdvancedSignals (server.js:534-620).  A run goes through        *)
(* MARKET_SYMBOLS; for each market it awaits the price, the signal, the    *)
(* insert into the signals table and, for a strong signal, the Telegram    *)
(* send.  Between two awaits a run is not interrupted; at an await the     *)
(* other run may go on.  An error inside the loop body ends the market,    *)
(* not the run.                                                            *)
(***************************************************************************)
\* The price of a market, from Finnhub or from generateRealisticPrice: the
\* first market trades below the lower band, the second above the upper.
MarketPrice(symbol) ==
    IF symbol = "EUR/USD" THEN BandMiddle - BandWidth - 1
    ELSE BandMiddle + BandWidth + 1

\* What the four indicators may resolve with.
Bands == [upper  |-> R(BandMiddle + BandWidth),
          middle |-> R(BandMiddle),
          lower  |-> R(BandMiddle - BandWidth)]

Analyses ==
    {[rsi |-> R(10), macd |-> [macd |-> R(1), signal |-> R(0), histogram |-> R(1)],
      bollinger |-> Bands, stochastic |-> [k |-> R(10), d |-> R(10)]],
     [rsi |-> R(90), macd |-> [macd |-> R(-1), signal |-> R(0), histogram |-> R(-1)],
      bollinger |-> Bands, stochastic |-> [k |-> R(90), d |-> R(90)]],
     [rsi |-> R(10), macd |-> [macd |-> R(-1), signal |-> R(0), histogram |-> R(-1)],
      bollinger |-> Bands, stochastic |-> [k |-> R(10), d |-> R(10)]],
     [rsi |-> R(50), macd |-> [macd |-> R(0), signal |-> R(0), histogram |-> R(0)],
      bollinger |-> [upper |-> R(0), middle |-> R(0), lower |-> R(0)],
      stochastic |-> [k |-> R(50), d |-> R(50)]]}

\* What generateAdvancedSignal may return for a price.
SignalDataFor(price) ==
    {generateAdvancedSignal(price, a.rsi, a.macd, a.bollinger, a.stochastic) :
        a \in Analyses} \cup {AnalysisError}

\* The random price moves of a paper trade, in thousandths of a tick.
PriceMoves == {-MoveMilli, MoveMilli}

Symbol(r) == MARKET_SYMBOLS[market[r]]

\* const signal = { ... }  (lines 576-591)
SignalObject(r) ==
    [symbol     |-> Symbol(r),
     signal     |-> signalData[r].signal,
     strength   |-> signalData[r].strength,
     confidence |-> signalData[r].confidence,
     price      |-> MarketPrice(Symbol(r))]

\* The end of the loop body, by its last statement or by the catch block:
\* the next market, or the return after the last.
EndOfMarket(r) ==
    /\ market' = [market EXCEPT ![r] = @ + 1]
    /\ pcRun' = [pcRun EXCEPT ![r] = IF market[r] = Len(MARKET_SYMBOLS)
                                     THEN "done" ELSE "fetch"]

InitRun ==
    /\ pcRun = [r \in Runs |-> IF r = "scheduled" THEN "fetch" ELSE "idle"]
    /\ market = [r \in Runs |-> 1]
    /\ visited = [r \in Runs |-> <<>>]
    /\ signalData = [r \in Runs |-> NoData]
    /\ steps = [r \in Runs |-> <<>>]
    /\ newSignals = [r \in Runs |-> <<>>]
    /\ signalsTable = {}
    /\ tradingEngine = NewEngine
    /\ executeTradeCalls = 0
    /\ IdleInd
    /\ IdleA
    /\ IdleB
    /\ IdleS
    /\ IdleWs

\* app.post('/api/signals/generate'): a run starts while another may be
\* under way.
ManualRequest ==
    /\ pcRun["manual"] = "idle"
    /\ pcRun' = [pcRun EXCEPT !["manual"] = "fetch"]
    /\ UNCHANGED <<market, visited, signalData, steps, newSignals,
                   signalsTable, tradingEngine, executeTradeCalls, otherThanRun>>

\* await marketData.getRealTimePrice(market.symbol): the Finnhub quote, or
\* on its failure the generated price; then generateAdvancedSignal is
\* called.
PriceFetched(r) ==
    /\ pcRun[r] = "fetch"
    /\ \E source \in {"finnhub", "advanced-mock"} :
          /\ visited' = [visited EXCEPT ![r] = Append(@, Symbol(r))]
          /\ signalData' = [signalData EXCEPT ![r] = NoData]
          /\ steps' = [steps EXCEPT ![r] = <<>>]
          /\ pcRun' = [pcRun EXCEPT ![r] = "analyse"]
    /\ UNCHANGED <<market, newSignals, signalsTable, tradingEngine,
                   executeTradeCalls, otherThanRun>>

\* await AdvancedTechnicalAnalysis.generateAdvancedSignal(...); then the
\* insert is sent to the database.
SignalGenerated(r) ==
    /\ pcRun[r] = "analyse"
    /\ \E sd \in SignalDataFor(MarketPrice(Symbol(r))) :
          signalData' = [signalData EXCEPT ![r] = sd]
    /\ pcRun' = [pcRun EXCEPT ![r] = "insert"]
    /\ UNCHANGED <<market, visited, steps, newSignals, signalsTable,
                   tradingEngine, executeTradeCalls, otherThanRun>>

\* A failed insert ending the run: the error not caught inside the loop.
InsertFailed_AbortsRun(r) ==
    /\ pcRun[r] = "insert"
    /\ steps' = [steps EXCEPT ![r] = Append(@, "insert failed")]
    /\ pcRun' = [pcRun EXCEPT ![r] = "done"]
    /\ UNCHANGED <<market, visited, signalData, newSignals, signalsTable,
                   tradingEngine, executeTradeCalls, otherThanRun>>

\* await pool.query(INSERT ...) rejected: the catch block.
InsertFailed(r) ==
    /\ pcRun[r] = "insert"
    /\ steps' = [steps EXCEPT ![r] = Append(@, "insert failed")]
    /\ EndOfMarket(r)
    /\ UNCHANGED <<visited, signalData, newSignals, signalsTable,
                   tradingEngine, executeTradeCalls, otherThanRun>>

\* await pool.query(INSERT ...) resolved: the signal is pushed and
\* broadcast; broadcast throwing is the catch block; a strong signal is
\* sent to Telegram.
InsertSucceeded(r) ==
    /\ pcRun[r] = "insert"
    /\ signalsTable' = signalsTable \cup {[run |-> r, symbol |-> Symbol(r)]}
    /\ newSignals' = [newSignals EXCEPT ![r] = Append(@, SignalObject(r))]
    /\ \E threw \in BOOLEAN :
          IF threw THEN
              /\ steps' = [steps EXCEPT ![r] = @ \o <<"stored", "broadcast threw">>]
              /\ EndOfMarket(r)
          ELSE
              /\ steps' = [steps EXCEPT ![r] = @ \o <<"stored", "broadcast">>]
              /\ IF IsStrongSignal(signalData[r])
                 THEN /\ pcRun' = [pcRun EXCEPT ![r] = "notify"]
                      /\ UNCHANGED market
                 ELSE EndOfMarket(r)
    /\ UNCHANGED <<visited, signalData, tradingEngine, executeTradeCalls,
                   otherThanRun>>

\* The notification step trading only when the message was sent.
NotifySettled_TradeOnlyIfSent(r) ==
    /\ pcRun[r] = "notify"
    /\ \E sent \in BOOLEAN, priceMove \in PriceMoves :
          IF sent THEN
              /\ steps' = [steps EXCEPT ![r] = @ \o <<"notified", "traded">>]
              /\ tradingEngine' = executeTrade(tradingEngine, SignalObject(r),
                                               DefaultAmount, priceMove)
              /\ executeTradeCalls' = executeTradeCalls + 1
          ELSE
              /\ steps' = [steps EXCEPT ![r] = Append(@, "notification failed")]
              /\ UNCHANGED <<tradingEngine, executeTradeCalls>>
    /\ EndOfMarket(r)
    /\ UNCHANGED <<visited, signalData, newSignals, signalsTable, otherThanRun>>

\* await telegramService.sendSignalNotification(signal): true, or false
\* after its catch block; then tradingEngine.executeTrade(signal).
NotifySettled(r) ==
    /\ pcRun[r] = "notify"
    /\ \E sent \in BOOLEAN, priceMove \in PriceMoves :
          /\ steps' = [steps EXCEPT ![r] =
                 @ \o <<IF sent THEN "notified" ELSE "notification failed", "traded">>]
          /\ tradingEngine' = executeTrade(tradingEngine, SignalObject(r),
                                           DefaultAmount, priceMove)
          /\ executeTradeCalls' = executeTradeCalls + 1
    /\ EndOfMarket(r)
    /\ UNCHANGED <<visited, signalData, newSignals, signalsTable, otherThanRun>>

RunStep(r) ==
    \/ PriceFetched(r)
    \/ SignalGenerated(r)
    \/ InsertFailed(r)
    \/ InsertSucceeded(r)
    \/ NotifySettled(r)

NextRun == ManualRequest \/ \E r \in Runs : RunStep(r)

SpecRun == InitRun /\ [][NextRun]_vars

\* The scheduled run with no manual request.  Every await settles in the
\* end: the price request has a timeout, and the database and Telegram
\* answer or fail.
NextScheduled == \E r \in Runs : RunStep(r)

SpecScheduled == InitRun /\ [][NextScheduled]_vars /\ WF_vars(NextScheduled)

(***************************************************************************)
(* The WebSocket server (server.js:59-79).  A Set has add, delete, has,    *)
(* clear and forEach; it has no remove.  The close listener calls          *)
(* clients.remove(ws): a TypeError, thrown out of the listener, that       *)
(* nothing catches; the node process ends with it.                         *)
(***************************************************************************)
InitWs ==
    /\ IdleWs
    /\ IdleInd
    /\ IdleA
    /\ IdleB
    /\ IdleS
    /\ IdleRun

\* wss.on('connection', (ws) => { clients.add(ws); ... })
Connection(ws) ==
    /\ process = "running"
    /\ readyState[ws] = "CONNECTING"
    /\ readyState' = [readyState EXCEPT ![ws] = "OPEN"]
    /\ clients' = clients \cup {ws}
    /\ UNCHANGED <<sentTo, closeHandled, process, otherThanWs>>

\* The closing handshake has begun: the socket is no longer OPEN.
Closing(ws) ==
    /\ process = "running"
    /\ readyState[ws] = "OPEN"
    /\ readyState' = [readyState EXCEPT ![ws] = "CLOSING"]
    /\ UNCHANGED <<clients, sentTo, closeHandled, process, otherThanWs>>

\* ws.on('close', () => { clients.remove(ws); ... })
Close(ws) ==
    /\ process = "running"
    /\ readyState[ws] \in {"OPEN", "CLOSING"}
    /\ readyState' = [readyState EXCEPT ![ws] = "CLOSED"]
    /\ closeHandled' = closeHandled \cup {ws}
    /\ process' = "uncaught TypeError"
    /\ UNCHANGED <<clients, sentTo, otherThanWs>>

\* broadcast(data)
Broadcast ==
    /\ process = "running"
    /\ sentTo' = {client \in clients : readyState[client] = "OPEN"}
    /\ UNCHANGED <<clients, readyState, closeHandled, process, otherThanWs>>

NextWs ==
    \/ \E ws \in Sockets : Connection(ws)
    \/ \E ws \in Sockets : Closing(ws)
    \/ \E ws \in Sockets : Close(ws)
    \/ Broadcast

SpecWs == InitWs /\ [][NextWs]_vars

(***************************************************************************)
(* Properties.                                                             *)
(***************************************************************************)
\* generateAdvancedSignal returned from the try block (all four resolved).
Scored == pcB = "returned" /\ \A i \in Indicators : settled[i].state = "resolved"

RsiB   == settled["rsi"].value
MacdB  == settled["macd"].value
BandsB == settled["bollinger"].value
StochB == settled["stochastic"].value

\* C1: whatever the indicator values and the price, and on the error path
\* too, the confidence generateAdvancedSignal returns is an integer of
\* 30..95.
C1_ConfidenceRangeB ==
    pcB = "returned" => resultB.confidence \in 30..95

\* The upper clamp at work: every rule fired, 50+20+15+10+10+30 = 135.
C1_Witness ==
    /\ Scored
    /\ Abs(resultB.signal_points) = 10
    /\ resultB.confidence = 95

\* C2: whatever the price and the history, of any length, the confidence
\* generateSignal returns is an integer of 20..95.
C2_ConfidenceRangeA ==
    pcA = "returned" => resultA.confidence \in 20..95

\* A history of 20 or more samples whose overlays both add to the RSI
\* band's confidence, the result resting on the upper clamp.
C2_Witness ==
    /\ pcA = "returned"
    /\ Len(historicalPrices.items) >= 20
    /\ resultA.strength = "STRONG BUY"
    /\ resultA.confidence = 95

\* C3: the points tally decides direction and strength with inclusive
\* boundaries: >= 8 STRONG BUY, 6..7 BUY, <= -8 STRONG SELL, -7..-6 SELL,
\* -5..5 NEUTRAL / HOLD.
C3_PointsToSignal ==
    Scored =>
        LET p   == resultB.signal_points
            got == <<resultB.signal, resultB.strength>>
        IN  /\ p >= 8               => got = <<"BUY", "STRONG BUY">>
            /\ p \in 6..7           => got = <<"BUY", "BUY">>
            /\ p =< -8              => got = <<"SELL", "STRONG SELL">>
            /\ p \in (-7)..(-6)     => got = <<"SELL", "SELL">>
            /\ p \in (-5)..5        => got = <<"NEUTRAL", "HOLD">>

\* The boundary itself: a tally of exactly 6.
C3_Witness ==
    /\ Scored
    /\ resultB.signal_points = 6
    /\ resultB.strength = "BUY"

\* The reference rules of C4: what each indicator contributes, as
\* <<points, confidence>>, the first matching rule only.
RefRsi(rsi) ==
    CASE RLt(rsi, R(25))                        -> <<3, 20>>
      [] RLe(R(25), rsi) /\ RLt(rsi, R(35))     -> <<2, 10>>
      [] RGt(rsi, R(75))                        -> <<-3, 20>>
      [] RGt(rsi, R(65)) /\ RLe(rsi, R(75))     -> <<-2, 10>>
      [] OTHER                                  -> <<0, 0>>

RefMacd(m) ==
    CASE RGt(m.macd, m.signal) /\ RGt(m.histogram, R(0)) -> <<3, 15>>
      [] RLt(m.macd, m.signal) /\ RLt(m.histogram, R(0)) -> <<-3, 15>>
      [] OTHER                                           -> <<0, 0>>

RefBands(price, b) ==
    CASE RLt(R(price), b.lower)                              -> <<2, 10>>
      [] RLe(b.lower, R(price)) /\ RGt(R(price), b.upper)    -> <<-2, 10>>
      [] OTHER                                               -> <<0, 0>>

RefStoch(st) ==
    CASE RLt(st.k, R(20)) /\ RLt(st.d, R(20)) -> <<2, 10>>
      [] RGt(st.k, R(80)) /\ RGt(st.d, R(80)) -> <<-2, 10>>
      [] OTHER                                -> <<0, 0>>

RefTally ==
    LET parts == <<RefRsi(RsiB), RefMacd(MacdB), RefBands(priceB, BandsB),
                   RefStoch(StochB)>>
    IN  [points     |-> parts[1][1] + parts[2][1] + parts[3][1] + parts[4][1],
         confidence |-> 50 + parts[1][2] + parts[2][2] + parts[3][2] + parts[4][2]]

\* C4: signal_points is the sum of the reference rules' points and the
\* confidence is round(clamp(50 + their confidences + 3*|points|, 30, 95)).
C4_ScoringMatchesReference ==
    Scored =>
        /\ resultB.signal_points = RefTally.points
        /\ resultB.confidence =
               Max(30, Min(95, RefTally.confidence + 3 * Abs(RefTally.points)))

\* All four indicators fire a rule, and not all on the same side.
C4_Witness ==
    /\ Scored
    /\ RefRsi(RsiB)[1] = 2
    /\ RefMacd(MacdB)[1] = -3
    /\ RefBands(priceB, BandsB)[1] = -2
    /\ RefStoch(StochB)[1] = 2
    /\ resultB.confidence = 95
    /\ resultB.signal_points = -1

\* The case of C5: RSI in its lowest band, MACD bearish, the price below
\* the lower band, %K and %D below 20.
C5_Decline ==
    /\ Scored
    /\ RLt(RsiB, R(25))
    /\ RLt(MacdB.macd, MacdB.signal) /\ RLt(MacdB.histogram, R(0))
    /\ RLt(R(priceB), BandsB.lower)
    /\ RLt(StochB.k, R(20)) /\ RLt(StochB.d, R(20))

\* C5 as stated: in that case points <= -8, SELL / STRONG SELL, and
\* confidence = clamp(50+20+15+10+10 + 3*|points|, 30, 95).
C5_AsStated ==
    C5_Decline =>
        /\ resultB.signal_points =< -8
        /\ resultB.signal = "SELL"
        /\ resultB.strength = "STRONG SELL"
        /\ resultB.confidence =
               Max(30, Min(95, 50 + 20 + 15 + 10 + 10 + 3 * Abs(resultB.signal_points)))

\* C5 amended: in that case RSI, Bollinger and Stochastic score for the
\* buy side and only MACD for the sell side: points = 3 - 3 + 2 + 2 = 4,
\* NEUTRAL / HOLD, and confidence = clamp(50+20+15+10+10 + 3*4, 30, 95) = 95.
C5_DeclineScoresPlus4 ==
    C5_Decline =>
        /\ resultB.signal_points = 4
        /\ resultB.signal = "NEUTRAL"
        /\ resultB.strength = "HOLD"
        /\ resultB.confidence = Max(30, Min(95, 50 + 20 + 15 + 10 + 10 + 3 * 4))
        /\ resultB.confidence = 95

C5_Witness == C5_Decline /\ RsiB = R(0)

\* The case of C6: 50 identical samples c, and currentPrice = c.
C6_Flat ==
    /\ pcA = "returned"
    /\ Len(historicalPrices.items) = 50
    /\ \A i \in 1..50 : historicalPrices.items[i] = currentPrice

C7_NeverPropagates ==
    /\ pcA # "threw"
    /\ (pcA = "returned" /\ historicalPrices.kind = "undefined") =>
           /\ resultA.signal = "NEUTRAL"
           /\ resultA.strength = "HOLD"
           /\ resultA.confidence = 50
    /\ (pcB = "returned" /\ \E i \in Indicators : settled[i].state = "rejected") =>
           /\ resultB.signal = "NEUTRAL"
           /\ resultB.strength = "HOLD"
           /\ resultB.confidence = 50

\* What an indicator function of Variant B resolves with when the library
\* reported an error or delivered no output, Stochastic as C8 states it
\* and as the code has it.
FallbackRsi   == R(50)
FallbackMacd  == [macd |-> R(0), signal |-> R(0), histogram |-> R(0)]
FallbackBands == [upper |-> R(0), middle |-> R(0), lower |-> R(0)]

NotComputed(i) == lib[i] \in {"error", "empty"}

FallbacksWith(stoch) ==
    /\ NotComputed("rsi")        => settled["rsi"] = Resolved(FallbackRsi)
    /\ NotComputed("macd")       => settled["macd"] = Resolved(FallbackMacd)
    /\ NotComputed("bollinger")  => settled["bollinger"] = Resolved(FallbackBands)
    /\ NotComputed("stochastic") => settled["stochastic"] = Resolved(stoch)

\* C8 as stated: ... and Stochastic resolves with %K = %D = 0.
C8_AsStated == FallbacksWith([k |-> R(0), d |-> R(0)])

\* C8 amended: when the library calls back with an error or with an empty
\* output, no indicator function rejects; RSI resolves with 50, MACD and
\* Bollinger with all-zero records, and Stochastic with %K = %D = 50.
C8_Fallbacks == FallbacksWith([k |-> R(50), d |-> R(50)])

C8_Witness ==
    /\ lib["rsi"] = "error"
    /\ lib["macd"] = "empty"
    /\ lib["bollinger"] = "error"
    /\ lib["stochastic"] = "empty"

\* C9: on a series too short for the period, calculateRSI (shorter than
\* period + 1) returns 50, and calculateSMA and calculateEMA (shorter than
\* period) return the last element of the series.
C9_UnderLengthFallbacks ==
    /\ (rsiOut # None /\ Len(prices) < period + 1) => rsiOut = R(50)
    /\ (smaOut # None /\ Len(prices) < period) => smaOut = R(Last(prices))
    /\ (emaOut # None /\ Len(prices) < period) => emaOut = R(Last(prices))

\* All three called on a series shorter than the period whose last
\* element is not its first.
C9_Witness ==
    /\ rsiOut # None /\ smaOut # None /\ emaOut # None
    /\ Len(prices) < period
    /\ Last(prices) # prices[1]

\* The deltas calculateRSI is to look at: the first `period' ones.
NoLossInWindow == \A i \in 1..period : prices[i + 1] >= prices[i]

C11_JoinDeterministic ==
    pcB = "returned" =>
        /\ "signal_points" \in DOMAIN resultB =>
               \A i \in Indicators : settled[i].state = "resolved"
        /\ (\A i \in Indicators : settled[i].state # "pending") =>
               IF \E i \in Indicators : settled[i].state = "rejected"
               THEN resultB = AnalysisError
               ELSE /\ resultB = generateAdvancedSignal(priceB, RsiB, MacdB, BandsB, StochB)
                    /\ resultB.signal_points = RefTally.points
                    /\ resultB.macd = MacdB
                    /\ resultB.bollinger_bands = BandsB
                    /\ resultB.stochastic = StochB

\* A scored result all four indicators contributed to, none by fallback.
C11_Witness ==
    /\ Scored
    /\ \A i \in Indicators : lib[i] = "ok"
    /\ RefRsi(RsiB)[1] # 0
    /\ RefMacd(MacdB)[1] # 0
    /\ RefBands(priceB, BandsB)[1] # 0
    /\ RefStoch(StochB)[1] # 0
    /\ resultB.signal_points \in {-4, 4}

\* C12: on a history of fewer than 20 samples generateSignal returns
\* NEUTRAL / HOLD / 50 and nothing else, no rsi and no moving_average,
\* whatever the samples are; on 20 or more the result carries rsi and the
\* four moving averages.
C12_ShortHistoryNoPayload ==
    pcA = "returned" =>
        IF Len(historicalPrices.items) < 20
        THEN /\ DOMAIN resultA = {"signal", "strength", "confidence"}
             /\ resultA.signal = "NEUTRAL"
             /\ resultA.strength = "HOLD"
             /\ resultA.confidence = 50
        ELSE /\ {"rsi", "moving_average"} \subseteq DOMAIN resultA
             /\ DOMAIN resultA.moving_average =
                    {"sma_20", "sma_50", "ema_12", "ema_26"}

\* Nineteen samples, falling after a rise: one short of an analysis that
\* would have had something to say.
C12_Witness ==
    /\ pcA = "returned"
    /\ Len(historicalPrices.items) = 19
    /\ historicalPrices.items[4] > historicalPrices.items[1]
    /\ Last(historicalPrices.items) < historicalPrices.items[4]
    /\ "rsi" \notin DOMAIN resultA

\* The five bands of the RSI step, as conditions on the RSI alone.
RsiBands(rsi) ==
    <<RLt(rsi, R(25)),
      RLe(R(25), rsi) /\ RLt(rsi, R(35)),
      RGt(rsi, R(75)),
      RGt(rsi, R(65)) /\ RLe(rsi, R(75)),
      RLe(R(35), rsi) /\ RLe(rsi, R(65))>>

RsiBandOutcome ==
    <<[signal |-> "BUY",     strength |-> "STRONG BUY"],
      [signal |-> "BUY",     strength |-> "BUY"],
      [signal |-> "SELL",    strength |-> "STRONG SELL"],
      [signal |-> "SELL",    strength |-> "SELL"],
      [signal |-> "NEUTRAL", strength |-> "HOLD"]>>

\* C13: every RSI lies in exactly one of the five bands <25, [25,35), >75,
\* (65,75], [35,65], and the RSI step gives that band's signal and
\* strength: STRONG BUY, BUY, STRONG SELL, SELL, and NEUTRAL / HOLD with
\* confidence 50; so the tighter band wins and 25, 35, 65 and 75 fall in
\* the weaker or the neutral band.
C13_RsiBands ==
    pcS \in {"ma", "ema"} =>
        /\ Cardinality({b \in 1..5 : RsiBands(rsiS)[b]}) = 1
        /\ \A b \in 1..5 :
              RsiBands(rsiS)[b] =>
                  /\ rsiStep.signal = RsiBandOutcome[b].signal
                  /\ rsiStep.strength = RsiBandOutcome[b].strength
                  /\ b = 5 => rsiStep.confidence = R(50)
        /\ rsiS = R(25) => rsiStep.strength = "BUY"
        /\ rsiS = R(75) => rsiStep.strength = "SELL"
        /\ rsiS \in {R(35), R(65)} => rsiStep.strength = "HOLD"

\* An RSI both BUY conditions of the code are true of: only the tighter
\* is applied.
C13_Witness ==
    /\ pcS \in {"ma", "ema"}
    /\ RLt(rsiS, R(25)) /\ RGt(rsiS, R(24))
    /\ rsiStep.strength = "STRONG BUY"

\* The two conditions of the moving-average step.
MaUp   == RGt(sma20S, sma50S) /\ RGt(R(priceS), sma20S)
MaDown == RLt(sma20S, sma50S) /\ RLt(R(priceS), sma20S)

\* What the step makes of the RSI step's outcome on the side `side'
\* ("BUY" or "SELL"): 10 more confidence if the signal is on that side
\* already, else the signal forced to that side, plain if the confidence
\* is above 60 and WEAK otherwise, the confidence as it was.
MaOverlaid(side) ==
    IF rsiStep.signal = side
    THEN /\ maStep.signal = rsiStep.signal
         /\ maStep.strength = rsiStep.strength
         /\ maStep.confidence = RAdd(rsiStep.confidence, R(10))
    ELSE /\ maStep.signal = side
         /\ maStep.strength = (IF RGt(rsiStep.confidence, R(60))
                               THEN side
                               ELSE IF side = "BUY" THEN "WEAK BUY" ELSE "WEAK SELL")
         /\ maStep.confidence = rsiStep.confidence

\* C14: with SMA20 > SMA50 and price > SMA20 the moving-average step
\* overlays the BUY side, with SMA20 < SMA50 and price < SMA20 the SELL
\* side, and otherwise it changes nothing.
C14_MovingAverageOverlay ==
    pcS = "ema" =>
        /\ MaUp => MaOverlaid("BUY")
        /\ MaDown => MaOverlaid("SELL")
        /\ ~MaUp /\ ~MaDown => maStep = rsiStep

\* A SELL of confidence exactly 60 forced to the BUY side: WEAK BUY.
C14_Witness ==
    /\ pcS = "ema"
    /\ MaUp
    /\ rsiStep.signal = "SELL"
    /\ rsiStep.confidence = R(60)
    /\ maStep.signal = "BUY"
    /\ maStep.strength = "WEAK BUY"

\* The series that agree with `prices' on the first period + 1 samples and
\* have its length: the same head, any later samples.
SameHead ==
    LET head == SubSeq(prices, 1, period + 1)
    IN  {head \o tail : tail \in [1..(Len(prices) - period - 1) -> Ticks]}

\* C15: on a series of at least period + 1 samples calculateRSI returns
\* what it returns on the first period + 1 samples alone, and on every
\* series that agrees with it on those: the later samples do not count.
C15_RsiReadsHeadOnly ==
    (rsiOut # None /\ Len(prices) >= period + 1) =>
        /\ rsiOut = calculateRSI(SubSeq(prices, 1, period + 1), period)
        /\ \A other \in SameHead : calculateRSI(other, period) = rsiOut

\* A rising head followed by a fall: RSI is still 100.
C15_Witness ==
    /\ rsiOut # None
    /\ Len(prices) >= period + 3
    /\ \A i \in 1..period : prices[i + 1] > prices[i]
    /\ \A i \in (period + 1)..(Len(prices) - 1) : prices[i + 1] < prices[i]
    /\ rsiOut = R(100)

\* The markets whose insert by run r succeeded, in MARKET_SYMBOLS order.
StoredBy(r) ==
    SelectSeq(MARKET_SYMBOLS,
              LAMBDA m : [run |-> r, symbol |-> m] \in signalsTable)

SymbolsOf(signals) == [i \in 1..Len(signals) |-> signals[i].symbol]

\* C17: whatever fails for a market, a run that has started goes through
\* every market of MARKET_SYMBOLS and returns; its list holds, in
\* MARKET_SYMBOLS order, the signals of exactly the markets whose insert
\* succeeded.
C17_FailureIsolation ==
    /\ [](\A r \in Runs :
             /\ SymbolsOf(newSignals[r]) = StoredBy(r)
             /\ pcRun[r] = "done" => visited[r] = MARKET_SYMBOLS)
    /\ \A r \in Runs : (pcRun[r] # "idle") ~> (pcRun[r] = "done")

\* A run that is over, the insert of its first market having failed and
\* the broadcast of its second having thrown.
C17_Witness ==
    /\ pcRun["scheduled"] = "done"
    /\ [run |-> "scheduled", symbol |-> MARKET_SYMBOLS[1]] \notin signalsTable
    /\ SymbolsOf(newSignals["scheduled"]) = <<MARKET_SYMBOLS[2]>>
    /\ steps["scheduled"] = <<"stored", "broadcast threw">>

\* What a run may have done for the market it visited last, in order.
PipelineOrders ==
    {<<>>,
     <<"insert failed">>,
     <<"stored", "broadcast threw">>,
     <<"stored", "broadcast">>,
     <<"stored", "broadcast", "notified", "traded">>,
     <<"stored", "broadcast", "notification failed", "traded">>}

Did(r, step) == \E i \in 1..Len(steps[r]) : steps[r][i] = step

\* C16: for a market a run stores the signal, broadcasts it, notifies
\* Telegram and trades, in this order; it notifies and trades only if the
\* insert succeeded and the signal is not NEUTRAL and has confidence >= 70;
\* and it trades after the notification whether that was sent or failed.
C16_PipelineOrder ==
    \A r \in Runs :
        /\ steps[r] \in PipelineOrders
        /\ (Did(r, "notified") \/ Did(r, "notification failed") \/ Did(r, "traded")) =>
               /\ [run |-> r, symbol |-> visited[r][Len(visited[r])]] \in signalsTable
               /\ signalData[r].signal # "NEUTRAL"
               /\ signalData[r].confidence >= 70
        /\ (Did(r, "notified") \/ Did(r, "notification failed")) =>
               steps[r][Len(steps[r])] = "traded"

\* The Telegram send failed and the paper trade was made all the same.
C16_Witness ==
    /\ steps["scheduled"] = <<"stored", "broadcast", "notification failed", "traded">>
    /\ Len(tradingEngine.tradeHistory) = 1
    /\ tradingEngine.tradeHistory[1].type = "SELL"

\* C18: a client whose close event has been handled is no longer in
\* clients, so clients holds exactly the sockets that have connected and
\* not closed; and broadcast sends to members of clients only.
C18_ClosedClientsRemoved ==
    /\ \A ws \in closeHandled : ws \notin clients
    /\ clients = {ws \in Sockets : readyState[ws] \in {"OPEN", "CLOSING"}}
    /\ sentTo \subseteq clients

\* C19: a result of generateAdvancedSignal whose signal is BUY or SELL has
\* confidence 95; no result has a confidence below 50; so the pipeline's
\* test for a strong signal is true of exactly the results that are not
\* NEUTRAL.
C19_DirectionalMeansNinetyFive ==
    pcB = "returned" =>
        /\ resultB.signal \in {"BUY", "SELL"} => resultB.confidence = 95
        /\ resultB.confidence >= 50
        /\ IsStrongSignal(resultB) <=> resultB.signal # "NEUTRAL"

\* The BUY that is least sure of itself: 6 points from the three rules
\* that add 10 each, 50 + 30 + 18 = 98 before the clamp.
C19_Witness ==
    /\ Scored
    /\ resultB.signal = "BUY"
    /\ resultB.signal_points = 6
    /\ RefTally.confidence = 80
    /\ resultB.confidence = 95

\* The balance after the trades of a history, each pnl added to it in
\* turn, as executeTrade adds it.
RECURSIVE RunningBalance(_, _)
RunningBalance(history, st) ==
    IF st.i > Len(history) THEN st.balance
    ELSE RunningBalance(history,
             [i       |-> st.i + 1,
              balance |-> FloatAdd(st.balance, history[st.i].pnl)])

TradesCounted ==
    /\ getPortfolio(tradingEngine).totalTrades = executeTradeCalls
    /\ \A i \in 1..Len(tradingEngine.tradeHistory) :
          tradingEngine.tradeHistory[i].type \in {"BUY", "SELL"}

\* C20 as stated: balance equals 10000 plus the sum of pnl over
\* tradeHistory (the sum getPortfolio reports as totalPnl).
C20_AsStated ==
    /\ tradingEngine.balance =
           FloatAdd(InitialBalance, getPortfolio(tradingEngine).totalPnl)
    /\ TradesCounted

\* C20 amended: balance is 10000 with the pnl of every trade of
\* tradeHistory added to it in turn, every sum rounded; totalTrades is the
\* number of executeTrade calls; and every trade is a BUY or a SELL.
C20_Ledger ==
    /\ tradingEngine.balance =
           RunningBalance(tradingEngine.tradeHistory,
                          [i |-> 1, balance |-> InitialBalance])
    /\ getPortfolio(tradingEngine).balance = tradingEngine.balance
    /\ TradesCounted

\* Both runs under way, each having traded its current market, one long
\* and one short.
C20_Witness ==
    /\ \A r \in Runs : pcRun[r] \notin {"idle", "done"} /\ Did(r, "traded")
    /\ executeTradeCalls = 2
    /\ {tradingEngine.tradeHistory[i].type : i \in 1..2} = {"BUY", "SELL"}
    /\ tradingEngine.balance # InitialBalance + tradingEngine.tradeHistory[1].pnl
                                              + tradingEngine.tradeHistory[2].pnl

\* C21: with the four indicators at their fallback values (RSI 50, MACD
\* 0/0/0, Bollinger 0/0/0, Stochastic 50/50) and a price above 0,
\* generateAdvancedSignal returns NEUTRAL / HOLD with -2 points and
\* confidence 66: the price is above the zeroed upper band.
C21_WarmUpScoresMinus2 ==
    (/\ Scored
     /\ RsiB = FallbackRsi
     /\ MacdB = FallbackMacd
     /\ BandsB = FallbackBands
     /\ StochB = [k |-> R(50), d |-> R(50)]
     /\ priceB > 0) =>
        /\ resultB.signal = "NEUTRAL"
        /\ resultB.strength = "HOLD"
        /\ resultB.signal_points = -2
        /\ resultB.confidence = 66
        /\ RefBands(priceB, BandsB) = <<-2, 10>>

\* No indicator was computed: each library call ended with an error or
\* with no output.
C21_Witness ==
    /\ Scored
    /\ \A i \in Indicators : NotComputed(i)
    /\ priceB > 0
    /\ resultB.signal_points = -2
    /\ resultB.confidence = 66

=============================================================================
